---------------------------- MODULE Spec2Model ----------------------------
(***************************************************************************)
(* Model of the bad-line detection and repair code of trz_py_utils:        *)
(*   - iter_lines_progress  (s3.py)   chunked line iterator                *)
(*   - S3Cleaner            (s3.py)   constructor, _parse_line, _write,    *)
(*                                    rewrite                              *)
(*   - BadFileReader        (file.py) constructor, _yield_lines,           *)
(*                                    _parse_line, read                    *)
(*   - BadLine              (file.py) _i_pos_from_error, count_cols,       *)
(*                                    caret_under_matches                  *)
(*   - S3Object             (s3.py)   constructor and its parsers          *)
(*   - write_text_to_obj    (s3.py)   with upload_obj                      *)
(*                                                                         *)
(* Bytes and characters are one-character strings.  "a" is an ordinary     *)
(* ASCII character, "~" the delimiter, "N" "U" "L" the letters of the NULL *)
(* sentinel, "\n" and "\r" the line terminators, "E" the byte 0xE2 (lead   *)
(* byte of a three-byte UTF-8 sequence) and "C" the byte 0x82 (a UTF-8     *)
(* continuation byte).  A byte string is a sequence of them.               *)
(***************************************************************************)
EXTENDS Integers, Sequences, FiniteSets, TLC

VARIABLES
    cls,        \* which class was constructed: "S3Cleaner" or "BadFileReader"
    cfg,        \* the constructor / call arguments of the run
    content,    \* the bytes of the source object or file
    gen,        \* state of the line generator the run iterates over
    headers,    \* self.headers
    i,          \* self._i
    text,       \* S3Cleaner._text, the accepted bytes not yet written
    lines,      \* BadFileReader.lines
    bad_lines,  \* self.bad_lines
    writes,     \* the payload of every write call made on the destination
    dest,       \* the destination object: <<>> while absent, else <<bytes>>
    num_good,   \* self.num_good
    num_bad,    \* self.num_bad
    pc,         \* "ready", "streaming", "done" or "raised"
    error,      \* the exception that left the run, "none" if none did
    swallowed,  \* source errors BadFileReader._yield_lines caught and printed
    yielded,    \* the lines iter_lines_progress has yielded (SpecLines)
    percent_good,  \* BadFileReader.percent_good: absent, or <<numerator, denominator>>
    runs,       \* calls of rewrite / read made on the instance after the first
    regex_errors,  \* re.error exceptions _yield_lines caught and printed
    caret,      \* what caret_under_matches returned (SpecCaret)
    obj,        \* the attributes of the S3Object constructed (SpecObject)
    wargs,      \* the arguments of the call of BadFileReader.write, once made
    default_regexes,  \* the list object that is the default of reject_line_regex
    built,      \* the S3Cleaners constructed so far in the process (SpecBuild)
    opened,     \* the path of every object S3Cleaner._write opened for writing
    broken,     \* the source raises on every attempt to read it (SpecReadFair)
    ret         \* what the function called returned, once it has (SpecUpload)

vars == <<cls, cfg, content, gen, headers, i, text, lines, bad_lines, writes,
          dest, num_good, num_bad, pc, error, swallowed, yielded,
          percent_good, runs, regex_errors, caret, obj, wargs,
          default_regexes, built, opened, broken, ret>>

----------------------------------------------------------------------------
(* Bounds of the model *)

\* data lines after the header in a source
MaxData == 2
\* source errors one BadFileReader.read may meet
MaxSourceErrors == 1
\* stands for chunk_size=1024 of iter_lines_progress, scaled to the model's
\* sources so that a source spans several chunks
ModelChunkSize == 8
\* length of the byte contents iter_lines_progress is run on alone
MaxLen == 5
\* chunk sizes iter_lines_progress is run with alone
MaxChunk == 4
\* data lines of a file in the runs of BadFileReader alone
MaxFileData == 1
\* calls of rewrite / read on an instance after the first
MaxRuns == 1
\* length of the text of a BadLine whose caret_under_matches is called
MaxCaretLen == 9
\* length of the key of an S3Object
MaxKeyLen == 3
\* S3Cleaners constructed one after the other in a process
MaxBuilt == 3
\* columns of the header in the runs that try the column-count guard
MaxCols == 3
\* length of the data line in those runs
MaxGuardLen == 4
\* value up to which self._i is followed while the source keeps failing
MaxCount == 4

----------------------------------------------------------------------------
(* Bytes *)

LF == "\n"
CR == "\r"
NonAscii == {"E", "C"}
NULL == <<"N", "U", "L", "L">>

\* Optional values: None is <<>>, a value v is <<v>>
None == <<>>
Some(v) == <<v>>

IsBreak(c) == c = LF \/ c = CR

\* index of the first line terminator of b, 0 when there is none
FirstBreak(b) ==
    IF \E j \in 1..Len(b) : IsBreak(b[j])
    THEN CHOOSE j \in 1..Len(b) :
            IsBreak(b[j]) /\ \A m \in 1..(j-1) : ~IsBreak(b[m])
    ELSE 0

\* bytes.splitlines(True): split after "\n", "\r" and "\r\n", terminators kept
RECURSIVE SplitKeep(_)
SplitKeep(b) ==
    IF b = <<>> THEN <<>>
    ELSE LET j == FirstBreak(b) IN
         IF j = 0 THEN <<b>>
         ELSE LET e == IF b[j] = CR /\ j < Len(b) /\ b[j+1] = LF
                       THEN j + 1 ELSE j
              IN <<SubSeq(b, 1, e)>> \o SplitKeep(SubSeq(b, e + 1, Len(b)))

\* a line of SplitKeep without its terminator
Body(l) ==
    LET j == FirstBreak(l) IN IF j = 0 THEN l ELSE SubSeq(l, 1, j - 1)

\* bytes.splitlines(keepends)
SplitLines(b, keepends) ==
    LET ls == SplitKeep(b) IN
    IF keepends THEN ls ELSE [x \in 1..Len(ls) |-> Body(ls[x])]

\* number of delimiters d in s
DelimCount(s, d) == Cardinality({j \in 1..Len(s) : s[j] = d})

\* p occurs in s at index j
OccursAt(s, p, j) ==
    j >= 1 /\ j + Len(p) - 1 <= Len(s) /\ SubSeq(s, j, j + Len(p) - 1) = p

HasSub(s, p) == \E j \in 1..Len(s) : OccursAt(s, p, j)

\* str.split(d)
RECURSIVE Split(_, _)
Split(s, d) ==
    IF \E j \in 1..Len(s) : s[j] = d
    THEN LET j == CHOOSE j \in 1..Len(s) :
                     s[j] = d /\ \A m \in 1..(j-1) : s[m] # d
         IN <<SubSeq(s, 1, j - 1)>> \o Split(SubSeq(s, j + 1, Len(s)), d)
    ELSE <<s>>

RECURSIVE Flatten(_)
Flatten(ss) == IF ss = <<>> THEN <<>> ELSE Head(ss) \o Flatten(Tail(ss))

----------------------------------------------------------------------------
(* iter_lines_progress: the generator reads the body one chunk at a time,  *)
(* yields every line of pending+chunk but the last, and keeps the last as  *)
(* pending; at the end of the body it yields what is pending.              *)
(* Its state: offset of the next chunk, pending, and the lines of the      *)
(* current chunk still to be yielded.                                      *)

GenInit == [offset |-> 0, pending |-> <<>>, ready |-> <<>>]

\* a reader that keeps no unfinished line from one chunk to the next: every
\* chunk is split on its own
ChunkStepNoCarry(g, b, chunk_size, keepends) ==
    LET chunk == SubSeq(b, g.offset + 1,
                        IF g.offset + chunk_size <= Len(b)
                        THEN g.offset + chunk_size ELSE Len(b))
    IN [offset  |-> g.offset + Len(chunk),
        pending |-> <<>>,
        ready   |-> SplitLines(chunk, keepends)]

\* lines 630-635: one chunk of the body is read and split
ChunkStep(g, b, chunk_size, keepends) ==
    LET chunk == SubSeq(b, g.offset + 1,
                        IF g.offset + chunk_size <= Len(b)
                        THEN g.offset + chunk_size ELSE Len(b))
        ls == SplitLines(g.pending \o chunk, TRUE)
    IN [offset  |-> g.offset + Len(chunk),
        pending |-> ls[Len(ls)],
        ready   |-> [x \in 1..(Len(ls) - 1) |->
                        SplitLines(ls[x], keepends)[1]]]

\* the generator has to read a chunk before it can yield again
GenNeedsChunk(g, b) == g.ready = <<>> /\ g.offset < Len(b)

\* the generator is exhausted: next() raises StopIteration
GenStops(g, b) == g.ready = <<>> /\ g.offset >= Len(b) /\ g.pending = <<>>

\* next(generator): [line, gen] of the next yield; only used when ~GenStops
RECURSIVE GenNext(_, _, _, _)
GenNext(g, b, chunk_size, keepends) ==
    IF g.ready # <<>>
    THEN [line |-> Head(g.ready), gen |-> [g EXCEPT !.ready = Tail(@)]]
    ELSE IF g.offset < Len(b)
    THEN GenNext(ChunkStep(g, b, chunk_size, keepends), b, chunk_size, keepends)
    ELSE [line |-> SplitLines(g.pending, keepends)[1],
          gen  |-> [g EXCEPT !.pending = <<>>]]

----------------------------------------------------------------------------
(* Decoding *)

\* bytes.decode("ascii"): [ok, start, end) of the first undecodable byte
DecodeAscii(b) ==
    IF \E j \in 1..Len(b) : b[j] \in NonAscii
    THEN LET j == CHOOSE j \in 1..Len(b) :
                     b[j] \in NonAscii /\ \A m \in 1..(j-1) : b[m] \notin NonAscii
         IN [ok |-> FALSE, start |-> j - 1, end |-> j]
    ELSE [ok |-> TRUE, start |-> 0, end |-> 0]

\* bytes.decode("utf-8") from index j on: "E" opens a three-byte sequence and
\* needs two continuation bytes "C"; a truncated sequence is reported with
\* the bytes read so far, a stray "C" is an invalid start byte
RECURSIVE DecodeUtf8(_, _)
DecodeUtf8(b, j) ==
    IF j > Len(b) THEN [ok |-> TRUE, start |-> 0, end |-> 0]
    ELSE IF b[j] = "E"
    THEN IF j + 1 <= Len(b) /\ b[j+1] = "C"
         THEN IF j + 2 <= Len(b) /\ b[j+2] = "C"
              THEN DecodeUtf8(b, j + 3)
              ELSE [ok |-> FALSE, start |-> j - 1, end |-> j + 1]
         ELSE [ok |-> FALSE, start |-> j - 1, end |-> j]
    ELSE IF b[j] = "C"
    THEN [ok |-> FALSE, start |-> j - 1, end |-> j]
    ELSE DecodeUtf8(b, j + 1)

\* bytes.decode(encoding); "latin-1" decodes every byte
Decode(b, encoding) ==
    CASE encoding = "ascii" -> DecodeAscii(b)
      [] encoding = "utf-8" -> DecodeUtf8(b, 1)
      [] OTHER -> [ok |-> TRUE, start |-> 0, end |-> 0]

\* the decoded string: under utf-8 the bytes E C C are one character "X",
\* under the single-byte encodings every byte is one character
RECURSIVE DecodeText(_, _)
DecodeText(b, encoding) ==
    IF b = <<>> THEN <<>>
    ELSE IF encoding = "utf-8" /\ OccursAt(b, <<"E", "C", "C">>, 1)
    THEN <<"X">> \o DecodeText(SubSeq(b, 4, Len(b)), encoding)
    ELSE <<Head(b)>> \o DecodeText(Tail(b), encoding)

\* what str(e) of a UnicodeDecodeError holds between "position " and ": ":
\* one number for a single byte, "start-last" for several
ErrorPositionText(e) ==
    IF e.end = e.start + 1 THEN <<e.start>> ELSE <<e.start, "-", e.end - 1>>

\* BadLine._i_pos_from_error: int() of that text; int("0-1") raises ValueError
PosFromError(e) ==
    LET t == ErrorPositionText(e) IN
    IF Len(t) = 1 THEN [raises |-> FALSE, position |-> Some(t[1])]
    ELSE [raises |-> TRUE, position |-> None]

----------------------------------------------------------------------------
(* Rejection patterns.  A pattern is [kind, lit, n]:                       *)
(*   "nonascii"  [^\x00-\x7F]                                              *)
(*   "lit"       the literal text lit                                      *)
(*   "atleast"   ^(?:[^d]*d){n,}[^d]*$      n or more delimiters           *)
(*   "atmost"    ^(?:[^d]*d){0,n}[^d]*$     n or fewer delimiters          *)
(* and a regex is the sequence of the patterns joined by "|".              *)

PatNonAscii == [kind |-> "nonascii", lit |-> <<>>, n |-> 0]
PatLit(s) == [kind |-> "lit", lit |-> s, n |-> 0]
PatAtLeast(n) == [kind |-> "atleast", lit |-> <<>>, n |-> n]
PatAtMost(n) == [kind |-> "atmost", lit |-> <<>>, n |-> n]
\* a pattern re cannot compile, such as "("
PatMalformed == [kind |-> "malformed", lit |-> <<>>, n |-> 0]

\* re compiles the joined pattern at its first use; one malformed
\* alternative makes that raise re.error
RegexCompiles(regex) == \A x \in 1..Len(regex) : regex[x].kind # "malformed"

\* re.search(pattern, s) finds a match.  [^d] matches the line terminators
\* too, so the two counting patterns depend on the delimiter count alone;
\* {0,n} with n < 0 is no repetition but literal text, found in no line here
PatSearch(p, s, d) ==
    CASE p.kind = "nonascii" -> \E j \in 1..Len(s) : s[j] \in (NonAscii \cup {"X"})
      [] p.kind = "lit"      -> HasSub(s, p.lit)
      [] p.kind = "atleast"  -> DelimCount(s, d) >= p.n
      [] p.kind = "atmost"   -> p.n >= 0 /\ DelimCount(s, d) <= p.n
      [] OTHER               -> FALSE

RegexSearch(regex, s, d) == \E x \in 1..Len(regex) : PatSearch(regex[x], s, d)

\* fmt.unique: duplicates dropped, order kept
RECURSIVE unique(_)
unique(seq) ==
    IF seq = <<>> THEN <<>>
    ELSE LET front == unique(SubSeq(seq, 1, Len(seq) - 1))
             last  == seq[Len(seq)]
         IN IF \E x \in 1..Len(front) : front[x] = last
            THEN front ELSE Append(front, last)

\* BadLine.count_cols: len(line.split(delimiter))
count_cols(line, d) == Len(Split(line, d))

----------------------------------------------------------------------------
(* Sources and configurations *)

Delim == "~"

\* header rows: four columns each; the second starts with the NULL sentinel
HeaderMenu ==
    { <<"a", "~", "a", "~", "a", "~", "a">>,
      NULL \o <<"~", "a", "~", "a", "~", "a">> }

\* data lines: well-formed, one field short, one field extra, well-formed
\* with two adjacent NULL sentinels, with non-ASCII bytes (well-formed and
\* one field short), and the empty line
DataMenu ==
    { <<"a", "~", "a", "~", "a", "~", "a">>,
      <<"a", "~", "a", "~", "a">>,
      <<"a", "~", "a", "~", "a", "~", "a", "~", "a">>,
      <<"a", "~">> \o NULL \o <<"~">> \o NULL \o <<"~", "a">>,
      <<"E", "C", "~", "a", "~", "a", "~", "a">>,
      <<"E", "C", "~", "a", "~", "a">>,
      <<>> }

\* a source: the header and up to MaxData data lines, each ended by "\n",
\* the last one with or without it
JoinLines(ls, final) ==
    Flatten([x \in 1..Len(ls) |->
                IF x < Len(ls) \/ final THEN Append(ls[x], LF) ELSE ls[x]])

ContentsUpTo(max) ==
    { JoinLines(<<h>> \o ds, final) :
        h \in HeaderMenu,
        ds \in UNION { [1..n -> DataMenu] : n \in 0..max },
        final \in BOOLEAN }

Contents == ContentsUpTo(MaxData)

\* a data line whose last field is empty: as many delimiters as the header
TrailingEmptyLine == <<"a", "~", "a", "~", "a", "~">>

\* the files BadFileReader is given: the sources above, a header followed by
\* a line with an empty last field, and the empty file
FileContents(max) ==
    ContentsUpTo(max)
    \cup { JoinLines(<<h, TrailingEmptyLine>>, final) :
              h \in HeaderMenu, final \in BOOLEAN }
    \cup { <<>> }

\* write_chunk_b=1024*1024 of S3Cleaner.rewrite
DefaultWriteChunk == 1024 * 1024

\* the object an S3Cleaner is constructed on
SourceBucket == "src"
SourceKey == "k"

\* the constructor arguments of an S3Cleaner and the arguments of its
\* rewrite, bucket and key taken from the given sets
S3ConfigsFor(buckets, keys) ==
    [reject_line_regex : {"default", "malformed"},
     null_handler : {"drop", "replace"},
     is_enforce_column_count : BOOLEAN,
     encoding : {"ascii", "utf-8"},
     write_chunk_b : {1, 2, DefaultWriteChunk},
     bucket : buckets,
     key : keys]

\* rewrite into another key of the bucket of the source
S3Configs == S3ConfigsFor({SourceBucket}, {"out"})

\* reject of BadFileReader.set_regex: its default, the default with the two
\* column-count patterns, or a malformed pattern; encoding is the one read()
\* opens the file with
BFRConfigs ==
    [reject : {"default", "guards", "malformed"},
     encoding : {"latin-1", "ascii", "utf-8"}]

----------------------------------------------------------------------------
(* S3Cleaner *)

\* S3Cleaner._set_headers: the first line of the object, decoded and split
S3Headers(b) ==
    Split(DecodeText(GenNext(GenInit, b, ModelChunkSize, FALSE).line, "utf-8"),
          Delim)

\* S3Cleaner._null_handler: the patterns added in drop mode
NullPatterns(null_handler, d) ==
    IF null_handler = "drop"
    THEN <<PatLit(NULL \o <<d>>), PatLit(<<d>> \o NULL)>>
    ELSE <<>>

\* an enforcer that lets a line with n delimiters pass: its first pattern
\* needs more than n of them
ColumnCountPatternsLoose(is_enforce_column_count, n) ==
    IF is_enforce_column_count
    THEN <<PatAtLeast(n + 1), PatAtMost(n - 2)>>
    ELSE <<>>

\* S3Cleaner._column_count_enforcer: n = len(headers)
ColumnCountPatterns(is_enforce_column_count, n) ==
    IF is_enforce_column_count
    THEN <<PatAtLeast(n), PatAtMost(n - 2)>>
    ELSE <<>>

\* the default of reject_line_regex as the def statement creates it
DefaultRejectLineRegex == <<PatNonAscii>>

\* S3Cleaner.__init__ and set_regex: self.regex of the first cleaner that is
\* constructed in the process
S3Regex(c, hs) ==
    unique((IF c.reject_line_regex = "malformed"
            THEN <<PatMalformed>> ELSE DefaultRejectLineRegex)
           \o NullPatterns(c.null_handler, Delim)
           \o ColumnCountPatterns(c.is_enforce_column_count, Len(hs)))

\* re.sub(b"NULL~|~NULL", b"~", t): leftmost matches, left to right
RECURSIVE ReSubNull(_, _)
ReSubNull(t, d) ==
    IF t = <<>> THEN <<>>
    ELSE IF OccursAt(t, NULL \o <<d>>, 1) \/ OccursAt(t, <<d>> \o NULL, 1)
    THEN <<d>> \o ReSubNull(SubSeq(t, 6, Len(t)), d)
    ELSE <<Head(t)>> \o ReSubNull(Tail(t), d)

\* S3Cleaner._replace_null
ReplaceNull(c, t) ==
    IF c.null_handler = "replace" THEN ReSubNull(t, Delim) ELSE t

\* BadLine of S3Cleaner._add_bad_line
S3BadLine(line_no, position, line) ==
    [line_no |-> Some(line_no), position |-> position, line |-> line]

\* S3Cleaner._parse_line: [raised, text, bad_lines] after the call; raised
\* is "none" or the exception the call lets through
S3ParseLine(c, hs, line, line_no, t, bl) ==
    LET e == Decode(line, c.encoding) IN
    IF ~e.ok
    THEN LET p == PosFromError(e) IN
         IF p.raises
         THEN [raised |-> "ValueError", text |-> t, bad_lines |-> bl]
         ELSE [raised |-> "none", text |-> t,
               bad_lines |-> Append(bl, S3BadLine(line_no, p.position, None))]
    ELSE IF ~RegexCompiles(S3Regex(c, hs))
    THEN [raised |-> "re.error", text |-> t, bad_lines |-> bl]
    ELSE IF RegexSearch(S3Regex(c, hs), line, Delim)
    THEN [raised |-> "none", text |-> t,
          bad_lines |-> Append(bl, S3BadLine(line_no, None,
                                      Some(DecodeText(line, c.encoding))))]
    ELSE [raised |-> "none", text |-> t \o line, bad_lines |-> bl]

\* S3Cleaner._write with t in self._text: the object at
\* f"{self.bucket}/{key_out}" is opened "wb", so each call replaces what the
\* calls before it wrote
S3Write(t) ==
    LET payload == ReplaceNull(cfg, t) IN
    /\ opened' = Append(opened, <<SourceBucket, cfg.key>>)
    /\ dest' = Some(payload)
    /\ writes' = Append(writes, payload)
    /\ text' = <<>>

\* rewrite, one turn of the for loop: the next line is parsed and, on every
\* write_chunk_b-th line, the buffer written
RewriteLine ==
    /\ cls = "S3Cleaner"
    /\ pc \in {"ready", "streaming"}
    /\ ~GenStops(gen, content)
    /\ LET nx == GenNext(gen, content, ModelChunkSize, TRUE)
           r  == S3ParseLine(cfg, headers, nx.line, i + 1, text, bad_lines)
       IN /\ gen' = nx.gen
          /\ i' = i + 1
          /\ bad_lines' = r.bad_lines
          /\ IF r.raised # "none"
             THEN /\ pc' = "raised"
                  /\ error' = r.raised
                  /\ UNCHANGED <<text, dest, writes, opened>>
             ELSE /\ pc' = "streaming"
                  /\ error' = error
                  /\ IF (i + 1) % cfg.write_chunk_b = 0
                     THEN S3Write(r.text)
                     ELSE /\ text' = r.text
                          /\ UNCHANGED <<dest, writes, opened>>
    /\ UNCHANGED <<cls, cfg, content, headers, lines, num_good, num_bad,
                   swallowed, yielded,
                   percent_good, runs, regex_errors, caret, obj, wargs,
                   default_regexes, built, broken, ret>>

\* rewrite, the body's chunk read raises: nothing catches it
RewriteSourceError ==
    /\ cls = "S3Cleaner"
    /\ pc \in {"ready", "streaming"}
    /\ GenNeedsChunk(gen, content)
    /\ pc' = "raised"
    /\ error' = "SourceError"
    /\ UNCHANGED <<cls, cfg, content, gen, headers, i, text, lines, bad_lines,
                   writes, dest, num_good, num_bad, swallowed, yielded,
                   percent_good, runs, regex_errors, caret, obj, wargs,
                   default_regexes, built, opened, broken, ret>>

\* a rewrite that never writes what is left in the buffer after the loop
HasRemainderNever(t) == FALSE

\* line 790: "if self._text"
HasRemainder(t) == t # <<>>

\* rewrite, after the loop: the remainder is written and the counts are set
RewriteFinish ==
    /\ cls = "S3Cleaner"
    /\ pc \in {"ready", "streaming"}
    /\ GenStops(gen, content)
    /\ IF HasRemainder(text) THEN S3Write(text)
       ELSE UNCHANGED <<dest, writes, text, opened>>
    /\ num_bad' = Len(bad_lines)
    /\ num_good' = i
    /\ pc' = "done"
    /\ UNCHANGED <<cls, cfg, content, gen, headers, i, lines, bad_lines,
                   error, swallowed, yielded,
                   percent_good, runs, regex_errors, caret, obj, wargs,
                   default_regexes, built, broken, ret>>

\* the state S3Cleaner.__init__ leaves, for one of the given configurations
\* on one of the given objects
InitCleaner(configs, objects) ==
    /\ cls = "S3Cleaner"
    /\ cfg \in configs
    /\ content \in objects
    /\ gen = GenInit
    /\ headers = S3Headers(content)
    /\ i = 1
    /\ text = <<>>
    /\ lines = <<>>
    /\ bad_lines = <<>>
    /\ writes = <<>>
    /\ dest = None
    /\ num_good = -1
    /\ num_bad = -1
    /\ pc = "ready"
    /\ error = "none"
    /\ swallowed = 0
    /\ yielded = <<>>
    /\ percent_good = None
    /\ runs = 0
    /\ regex_errors = 0
    /\ caret = None
    /\ obj = None
    /\ wargs = None
    /\ default_regexes = DefaultRejectLineRegex
    /\ built = <<>>
    /\ opened = <<>>
    /\ broken = FALSE
    /\ ret = None

InitS3 == InitCleaner(S3Configs, Contents)

\* the loop of rewrite over the lines ls from the k-th on, as a function:
\* acc and the result are [raised, text, bad_lines] as _parse_line leaves them
RECURSIVE S3ParseFrom(_, _, _, _, _)
S3ParseFrom(c, hs, ls, k, acc) ==
    IF k > Len(ls) \/ acc.raised # "none" THEN acc
    ELSE S3ParseFrom(c, hs, ls, k + 1,
                     S3ParseLine(c, hs, ls[k], k + 1, acc.text, acc.bad_lines))

\* a new S3Cleaner with configuration c on an object holding the bytes b,
\* and its rewrite: [raised, text, bad_lines] at the end of the loop
S3Run(c, b) ==
    S3ParseFrom(c, S3Headers(b), SplitLines(b, TRUE), 1,
                [raised |-> "none", text |-> <<>>, bad_lines |-> <<>>])

\* rewrite is called again on an instance whose rewrite has returned: nothing
\* of the instance is reset, the object is iterated from its start
RewriteAgain ==
    /\ cls = "S3Cleaner"
    /\ pc = "done"
    /\ runs < MaxRuns
    /\ runs' = runs + 1
    /\ gen' = GenInit
    /\ pc' = "ready"
    /\ UNCHANGED <<cls, cfg, content, headers, i, text, lines, bad_lines,
                   writes, dest, num_good, num_bad, error, swallowed, yielded,
                   percent_good, regex_errors, caret, obj, wargs,
                   default_regexes, built, opened, broken, ret>>

----------------------------------------------------------------------------
(* BadFileReader *)

\* a line without the delimiters at its end
RECURSIVE RStripDelim(_)
RStripDelim(l) ==
    IF l # <<>> /\ l[Len(l)] = Delim
    THEN RStripDelim(SubSeq(l, 1, Len(l) - 1)) ELSE l

\* a reader that strips the delimiters at the end of a line with its "\n"
FileLinesStripped(b) ==
    [x \in 1..Len(SplitLines(b, FALSE)) |-> RStripDelim(SplitLines(b, FALSE)[x])]

\* the lines iterating the text file gives, each stripped of its "\n"
FileLines(b) == SplitLines(b, FALSE)

\* BadFileReader._headers: the first row, stripped and split
BFRHeaders(b) ==
    Split(IF FileLines(b) = <<>> THEN <<>> ELSE FileLines(b)[1], Delim)

\* BadFileReader.set_regex: self.re_bad
BFRRegex(c, n) ==
    CASE c.reject = "guards" -> <<PatNonAscii, PatAtLeast(n), PatAtMost(n - 2)>>
      [] c.reject = "malformed" -> <<PatMalformed>>
      [] OTHER -> <<PatNonAscii>>

\* str.replace(old, new): occurrences of old, left to right, not overlapping
RECURSIVE StrReplace(_, _, _)
StrReplace(s, old, new) ==
    IF s = <<>> THEN <<>>
    ELSE IF OccursAt(s, old, 1)
    THEN new \o StrReplace(SubSeq(s, Len(old) + 1, Len(s)), old, new)
    ELSE <<Head(s)>> \o StrReplace(Tail(s), old, new)

\* self.replace and self.replace_with of BadFileReader.__init__
BFRReplace == <<Delim>> \o NULL \o <<Delim>>
BFRReplaceWith == <<Delim, Delim>>

\* BadFileReader._parse_line, lines 327-331: the sentinel is replaced
ReplaceSentinel(line) ==
    IF HasSub(line, BFRReplace)
    THEN StrReplace(line, BFRReplace, BFRReplaceWith)
    ELSE line

\* BadFileReader._parse_line: [raised, bad, line]; raised tells that
\* re.finditer raised re.error, bad holds the BadLine of a rejected line,
\* line the text returned otherwise
BFRParseLine(c, hs, line, line_no) ==
    IF ~RegexCompiles(BFRRegex(c, Len(hs)))
    THEN [raised |-> TRUE, bad |-> None, line |-> None]
    ELSE IF RegexSearch(BFRRegex(c, Len(hs)), line, Delim)
    THEN IF count_cols(line, Delim) = Len(hs) - 1
         THEN [raised |-> FALSE, bad |-> None,
               line |-> Some(ReplaceSentinel(Append(line, Delim)))]
         ELSE [raised |-> FALSE,
               bad |-> Some([line_no |-> Some(line_no), position |-> None,
                             line |-> Some(line)]),
               line |-> None]
    ELSE [raised |-> FALSE, bad |-> None, line |-> Some(ReplaceSentinel(line))]

\* next(file) raises StopIteration
FileStops(g, b) == g.offset >= Len(FileLines(b))

\* _yield_lines, one turn of the loop in which next(file) gives a line or
\* raises UnicodeDecodeError; a re.error out of _parse_line is caught by the
\* loop's "except Exception", printed, and the loop goes on.  The file is shorter than the read buffer, so
\* the first next(file) decodes all of it: when that fails no line is
\* given, the buffer is spent and the next turn meets the end of the file.
ReadLine ==
    /\ cls = "BadFileReader"
    /\ pc \in {"ready", "streaming"}
    /\ ~broken
    /\ ~FileStops(gen, content)
    /\ i' = i + 1
    /\ LET e == Decode(content, cfg.encoding) IN
       IF ~e.ok
       THEN LET p == PosFromError(e) IN
            /\ gen' = [gen EXCEPT !.offset = Len(FileLines(content))]
            /\ lines' = lines
            /\ regex_errors' = regex_errors
            /\ IF p.raises
               THEN /\ pc' = "raised"
                    /\ error' = "ValueError"
                    /\ bad_lines' = bad_lines
               ELSE /\ pc' = "streaming"
                    /\ error' = error
                    /\ bad_lines' = Append(bad_lines,
                            [line_no |-> None, position |-> p.position,
                             line |-> None])
       ELSE LET line == DecodeText(FileLines(content)[gen.offset + 1],
                                   cfg.encoding)
                r == BFRParseLine(cfg, headers, line, i + 1)
            IN /\ gen' = [gen EXCEPT !.offset = @ + 1]
               /\ pc' = "streaming"
               /\ error' = error
               /\ regex_errors' = IF r.raised THEN regex_errors + 1
                                  ELSE regex_errors
               /\ bad_lines' = bad_lines \o r.bad
               /\ lines' = IF r.line # None /\ r.line[1] # <<>>
                           THEN Append(lines, r.line[1]) ELSE lines
    /\ UNCHANGED <<cls, cfg, content, headers, text, writes, dest, num_good,
                   num_bad, swallowed, yielded,
                   percent_good, runs, caret, obj, wargs,
                   default_regexes, built, opened, broken, ret>>

\* _yield_lines, a turn in which next(file) raises another error: it is
\* printed and the loop goes on
ReadSourceError ==
    /\ cls = "BadFileReader"
    /\ pc \in {"ready", "streaming"}
    /\ ~broken
    /\ swallowed < MaxSourceErrors
    /\ i' = i + 1
    /\ swallowed' = swallowed + 1
    /\ pc' = "streaming"
    /\ UNCHANGED <<cls, cfg, content, gen, headers, text, lines, bad_lines,
                   writes, dest, num_good, num_bad, error, yielded,
                   percent_good, runs, regex_errors, caret, obj, wargs,
                   default_regexes, built, opened, broken, ret>>

\* _yield_lines meets the end of the file, and read sets the counts
ReadFinish ==
    /\ cls = "BadFileReader"
    /\ pc \in {"ready", "streaming"}
    /\ ~broken
    /\ FileStops(gen, content)
    /\ i' = i + 1
    /\ num_good' = Len(lines)
    /\ num_bad' = Len(bad_lines)
    /\ pc' = "done"
    /\ UNCHANGED <<cls, cfg, content, gen, headers, text, lines, bad_lines,
                   writes, dest, error, swallowed, yielded,
                   percent_good, runs, regex_errors, caret, obj, wargs,
                   default_regexes, built, opened, broken, ret>>

\* BadFileReader.num_total: the lines counted by __init__
num_total == Len(FileLines(content))

\* str.encode(encoding) of the text written: the character "X" is the three
\* bytes E C C, every other character one byte
RECURSIVE EncodeText(_, _)
EncodeText(t, encoding) ==
    IF t = <<>> THEN <<>>
    ELSE (IF encoding = "utf-8" /\ Head(t) = "X"
          THEN <<"E", "C", "C">> ELSE <<Head(t)>>)
         \o EncodeText(Tail(t), encoding)

\* write, lines 502-506: what fo.write(f"{line}\n") puts in the file, line
\* after line
WritePayloads(ls, encoding) ==
    [x \in 1..Len(ls) |-> EncodeText(Append(ls[x], LF), encoding)]

\* the lines argument of write: left out, an empty list, or a list of one line
WriteLinesArgs == {None, Some(<<>>), Some(<<<<"a">>>>)}

\* the loop of _yield_lines over the decoded lines ls from the k-th on, as a
\* function: the BadLines of the lines _parse_line rejects
RECURSIVE BFRBadFrom(_, _, _, _)
BFRBadFrom(c, hs, ls, k) ==
    IF k > Len(ls) THEN <<>>
    ELSE BFRParseLine(c, hs, DecodeText(ls[k], c.encoding), k).bad
         \o BFRBadFrom(c, hs, ls, k + 1)

\* a new BadFileReader on a file holding the bytes b, and its read with
\* configuration c: [raised, bad_lines]
BFRRun(c, b) ==
    LET e == Decode(b, c.encoding) IN
    IF ~e.ok
    THEN IF PosFromError(e).raises
         THEN [raised |-> "ValueError", bad_lines |-> <<>>]
         ELSE [raised |-> "none",
               bad_lines |-> <<[line_no |-> None,
                                position |-> PosFromError(e).position,
                                line |-> None]>>]
    ELSE [raised |-> "none",
          bad_lines |-> BFRBadFrom(c, BFRHeaders(b), FileLines(b), 1)]

\* the dry_run keyword of write: left out, True or False
WriteDryRunArgs == {None, Some(TRUE), Some(FALSE)}

\* a write that pays no attention to dry_run
PopDryRunIgnored(dry_run) == FALSE

\* line 491: kwargs.pop("dry_run", "") is true
PopDryRun(dry_run) == dry_run # None /\ dry_run[1]

\* BadFileReader.write(dest, lines, dry_run=..., encoding=...) after read():
\* the statistics, then the file unless dry_run; the file is opened with the
\* encoding read() was given
Write ==
    /\ cls = "BadFileReader"
    /\ pc = "done"
    /\ \E lines_arg \in WriteLinesArgs, dry_run \in WriteDryRunArgs :
          LET given   == lines_arg # None /\ lines_arg[1] # <<>>
              n_lines == IF given THEN Len(lines_arg[1]) ELSE num_good
              out     == IF given THEN lines_arg[1] ELSE lines
              fo      == WritePayloads(out, cfg.encoding)
          IN /\ wargs' = Some([lines |-> lines_arg, dry_run |-> dry_run])
             /\ IF num_total = 0
                THEN /\ pc' = "raised"
                     /\ error' = "ZeroDivisionError"
                     /\ UNCHANGED <<percent_good, dest, writes>>
                ELSE /\ percent_good' = Some(<<100 * n_lines, num_total>>)
                     /\ error' = error
                     /\ IF PopDryRun(dry_run)
                        THEN /\ pc' = "skipped"
                             /\ UNCHANGED <<dest, writes>>
                        ELSE /\ pc' = "written"
                             /\ dest' = Some(Flatten(fo))
                             /\ writes' = writes \o fo
    /\ UNCHANGED <<cls, cfg, content, gen, headers, i, text, lines, bad_lines,
                   num_good, num_bad, swallowed, yielded, runs, regex_errors,
                   caret, obj,
                   default_regexes, built, opened, broken, ret>>

\* read is called again on an instance whose read has returned: lines 429
\* and 430 empty the two lists, _yield_lines opens the file anew
ReadAgain ==
    /\ cls = "BadFileReader"
    /\ pc \in {"done", "written", "skipped"}
    /\ runs < MaxRuns
    /\ runs' = runs + 1
    /\ bad_lines' = <<>>
    /\ lines' = <<>>
    /\ gen' = GenInit
    /\ pc' = "ready"
    /\ UNCHANGED <<cls, cfg, content, headers, i, text, writes, dest,
                   num_good, num_bad, error, swallowed, yielded,
                   percent_good, regex_errors, caret, obj, wargs,
                   default_regexes, built, opened, broken, ret>>

\* what the file at dest holds before write is called: nothing, or a file
\* left by an earlier use
OldDest == <<"a", LF>>

\* the state BadFileReader.__init__ leaves on one of the given files, read()
\* having emptied its lists
InitReader(files) ==
    /\ cls = "BadFileReader"
    /\ cfg \in BFRConfigs
    /\ content \in files
    /\ gen = GenInit
    /\ headers = BFRHeaders(content)
    /\ i = 0
    /\ text = <<>>
    /\ lines = <<>>
    /\ bad_lines = <<>>
    /\ writes = <<>>
    /\ dest \in {None, Some(OldDest)}
    /\ num_good = -1
    /\ num_bad = -1
    /\ pc = "ready"
    /\ error = "none"
    /\ swallowed = 0
    /\ yielded = <<>>
    /\ percent_good = None
    /\ runs = 0
    /\ regex_errors = 0
    /\ caret = None
    /\ obj = None
    /\ wargs = None
    /\ default_regexes = DefaultRejectLineRegex
    /\ built = <<>>
    /\ opened = <<>>
    /\ broken = FALSE
    /\ ret = None

InitBFR == InitReader(FileContents(MaxData))

\* the same on the shorter files that the runs of read() and write() alone
\* are followed on
InitFile == InitReader(FileContents(MaxFileData))

----------------------------------------------------------------------------
(* The runs *)

Init == InitS3 \/ InitBFR

Next ==
    \/ RewriteLine
    \/ RewriteSourceError
    \/ RewriteFinish
    \/ ReadLine
    \/ ReadSourceError
    \/ ReadFinish
    \/ Write

Spec == Init /\ [][Next]_vars

\* BadFileReader alone: read() followed by write()
NextFile ==
    \/ ReadLine
    \/ ReadSourceError
    \/ ReadFinish
    \/ Write

SpecFile == InitFile /\ [][NextFile]_vars

\* S3Cleaner alone, on the shorter sources: one rewrite
InitRewrite == InitCleaner(S3Configs, ContentsUpTo(MaxFileData))

NextRewrite ==
    \/ RewriteLine
    \/ RewriteSourceError
    \/ RewriteFinish

SpecRewrite == InitRewrite /\ [][NextRewrite]_vars

\* instances whose rewrite or read is called again after it has returned
InitRerun ==
    \/ InitCleaner({c \in S3Configs : c.write_chunk_b = DefaultWriteChunk},
                   ContentsUpTo(MaxFileData))
    \/ InitFile

NextRerun ==
    \/ RewriteLine
    \/ RewriteSourceError
    \/ RewriteFinish
    \/ RewriteAgain
    \/ ReadLine
    \/ ReadSourceError
    \/ ReadFinish
    \/ Write
    \/ ReadAgain

SpecRerun == InitRerun /\ [][NextRerun]_vars

----------------------------------------------------------------------------
(* iter_lines_progress run alone, on any bytes and with any chunk size *)

ByteStrings == UNION { [1..n -> {"a", CR, LF}] : n \in 0..MaxLen }

InitLines ==
    /\ cls = "iter_lines_progress"
    /\ cfg \in [chunk_size : 1..MaxChunk, keepends : BOOLEAN]
    /\ content \in ByteStrings
    /\ gen = GenInit
    /\ headers = <<>>
    /\ i = 0
    /\ text = <<>>
    /\ lines = <<>>
    /\ bad_lines = <<>>
    /\ writes = <<>>
    /\ dest = None
    /\ num_good = -1
    /\ num_bad = -1
    /\ pc = "ready"
    /\ error = "none"
    /\ swallowed = 0
    /\ yielded = <<>>
    /\ percent_good = None
    /\ runs = 0
    /\ regex_errors = 0
    /\ caret = None
    /\ obj = None
    /\ wargs = None
    /\ default_regexes = DefaultRejectLineRegex
    /\ built = <<>>
    /\ opened = <<>>
    /\ broken = FALSE
    /\ ret = None

\* the caller takes the next line from the generator
IterNext ==
    /\ cls = "iter_lines_progress"
    /\ pc \in {"ready", "streaming"}
    /\ ~GenStops(gen, content)
    /\ LET nx == GenNext(gen, content, cfg.chunk_size, cfg.keepends)
       IN /\ gen' = nx.gen
          /\ yielded' = Append(yielded, nx.line)
    /\ pc' = "streaming"
    /\ UNCHANGED <<cls, cfg, content, headers, i, text, lines, bad_lines,
                   writes, dest, num_good, num_bad, error, swallowed,
                   percent_good, runs, regex_errors, caret, obj, wargs,
                   default_regexes, built, opened, broken, ret>>

\* the generator is exhausted
IterStop ==
    /\ cls = "iter_lines_progress"
    /\ pc \in {"ready", "streaming"}
    /\ GenStops(gen, content)
    /\ pc' = "done"
    /\ UNCHANGED <<cls, cfg, content, gen, headers, i, text, lines, bad_lines,
                   writes, dest, num_good, num_bad, error, swallowed, yielded,
                   percent_good, runs, regex_errors, caret, obj, wargs,
                   default_regexes, built, opened, broken, ret>>

NextLines == IterNext \/ IterStop

SpecLines == InitLines /\ [][NextLines]_vars

----------------------------------------------------------------------------
(* BadLine.caret_under_matches called alone, on a line the non-ASCII pattern
   matched.  A string is the sequence of its characters. *)

DigitChars == <<"0", "1", "2", "3", "4", "5", "6", "7", "8", "9">>

\* str(n) for n >= 0
RECURSIVE Digits(_)
Digits(n) ==
    IF n < 10 THEN <<DigitChars[n + 1]>>
    ELSE Digits(n \div 10) \o <<DigitChars[(n % 10) + 1]>>

\* line 138: f"line {self.line_no}: "
Preface(line_no) == <<"l", "i", "n", "e", " ">> \o Digits(line_no) \o <<":", " ">>

Smaller(a, b) == IF a <= b THEN a ELSE b

\* lst[a:b] = vals of Python, 0 <= a <= b: both indices are clipped to the
\* length of the list, so a slice past the end appends
SliceAssign(lst, a, b, vals) ==
    LET lo == Smaller(a, Len(lst))
        hi == Smaller(b, Len(lst))
    IN SubSeq(lst, 1, lo) \o vals \o SubSeq(lst, hi + 1, Len(lst))

\* m.span() of the matches re.finditer("[^\x00-\x7F]", line) gives: one
\* character each, from left to right
RECURSIVE SpansFrom(_, _)
SpansFrom(line, j) ==
    IF j > Len(line) THEN <<>>
    ELSE (IF line[j] \in NonAscii THEN <<(<<j - 1, j>>)>> ELSE <<>>)
         \o SpansFrom(line, j + 1)

\* lines 141-143: the loop over self.re_matches
RECURSIVE CaretLoop(_, _, _)
CaretLoop(caret_line, spans, pl) ==
    IF spans = <<>> THEN caret_line
    ELSE LET start == spans[1][1]
             end   == spans[1][2]
         IN CaretLoop(SliceAssign(caret_line, start + pl, end + pl,
                                  [x \in 1..(end - start) |-> "^"]),
                      Tail(spans), pl)

\* the text of the pattern, m.re.pattern
NonAsciiPattern == "[^\\x00-\\x7F]"

\* BadLine.caret_under_matches: the three lines returned
caret_under_matches(line, line_no, spans) ==
    LET preface == Preface(line_no)
        blank   == [x \in 1..Len(line) |-> " "]
    IN << preface \o line,
          CaretLoop(blank, spans, Len(preface)),
          <<" (re pattern '", NonAsciiPattern, "')">> >>

\* line numbers of one and of two digits
LineNos == {1, 12}

\* texts of up to MaxCaretLen characters with a non-ASCII one among them
CaretTexts ==
    { t \in UNION { [1..n -> {"a", "E"}] : n \in 1..MaxCaretLen } :
        \E j \in 1..Len(t) : t[j] = "E" }

\* a BadLine as _parse_line makes it: the text, its number and the matches
InitCaret ==
    /\ cls = "BadLine"
    /\ cfg \in [line : CaretTexts, line_no : LineNos]
    /\ content = <<>>
    /\ gen = GenInit
    /\ headers = <<>>
    /\ i = 0
    /\ text = <<>>
    /\ lines = <<>>
    /\ bad_lines = <<>>
    /\ writes = <<>>
    /\ dest = None
    /\ num_good = -1
    /\ num_bad = -1
    /\ pc = "ready"
    /\ error = "none"
    /\ swallowed = 0
    /\ yielded = <<>>
    /\ percent_good = None
    /\ runs = 0
    /\ regex_errors = 0
    /\ caret = None
    /\ obj = None
    /\ wargs = None
    /\ default_regexes = DefaultRejectLineRegex
    /\ built = <<>>
    /\ opened = <<>>
    /\ broken = FALSE
    /\ ret = None

\* bad_line.caret_under_matches() is called
CaretCall ==
    /\ cls = "BadLine"
    /\ pc = "ready"
    /\ caret' = Some(caret_under_matches(cfg.line, cfg.line_no,
                                         SpansFrom(cfg.line, 1)))
    /\ pc' = "done"
    /\ UNCHANGED <<cls, cfg, content, gen, headers, i, text, lines, bad_lines,
                   writes, dest, num_good, num_bad, error, swallowed, yielded,
                   percent_good, runs, regex_errors, obj, wargs,
                   default_regexes, built, opened, broken, ret>>

NextCaret == CaretCall

SpecCaret == InitCaret /\ [][NextCaret]_vars

----------------------------------------------------------------------------
(* S3Object: one object of S3 under its representations.  A text is the
   sequence of its pieces: the characters of the bucket and of the key one by
   one, and every fixed part of a URL ("s3://", "prefix=", an escape such as
   "%2F") as one piece. *)

\* first position of piece in s, 0 when absent
IndexOf(s, piece) ==
    IF \E j \in 1..Len(s) : s[j] = piece
    THEN CHOOSE j \in 1..Len(s) : s[j] = piece /\ \A k \in 1..(j - 1) : s[k] # piece
    ELSE 0

Contains(s, piece) == IndexOf(s, piece) # 0

\* s.split(piece)[0]
Before(s, piece) ==
    IF Contains(s, piece) THEN SubSeq(s, 1, IndexOf(s, piece) - 1) ELSE s

\* what follows the first occurrence of piece
After(s, piece) == SubSeq(s, IndexOf(s, piece) + 1, Len(s))

\* s.split(piece)[1], for s that contains piece
SplitSecond(s, piece) == Before(After(s, piece), piece)

\* s.strip("/")
RECURSIVE StripSlashes(_)
StripSlashes(s) ==
    IF s = <<>> THEN s
    ELSE IF Head(s) = "/" THEN StripSlashes(Tail(s))
    ELSE IF s[Len(s)] = "/" THEN StripSlashes(SubSeq(s, 1, Len(s) - 1))
    ELSE s

\* urlencode of one value (quote_plus): what is not a letter is escaped and
\* a space becomes "+"
QuotePlusChar(c) ==
    CASE c = "/" -> "%2F"
      [] c = "&" -> "%26"
      [] c = " " -> "+"
      [] OTHER   -> c

QuotePlus(s) == [j \in 1..Len(s) |-> QuotePlusChar(s[j])]

\* urllib.parse.unquote: an escape becomes its character, "+" stays
UnquoteChar(c) ==
    CASE c = "%2F" -> "/"
      [] c = "%26" -> "&"
      [] OTHER     -> c

Unquote(s) == [j \in 1..Len(s) |-> UnquoteChar(s[j])]

ConsoleHost == "s3.console.aws.amazon.com"

RegionName == "us-east-2"

\* make_console_url(s3_obj)
make_console_url(bucket_name, key) ==
    <<"https://", ConsoleHost, "/", "s3/object/">> \o bucket_name
      \o <<"?", "region=", RegionName, "&", "prefix=">> \o QuotePlus(key)

\* make_s3_url(s3_obj)
make_s3_url(bucket_name, key) ==
    <<"https://">> \o bucket_name \o <<".", "s3.us-east-2.amazonaws.com", "/">> \o key

\* S3Object._parse_s3_uri: netloc and stripped path of the unquoted text.
\* None of the texts built here has a query, params or a fragment.
parse_s3_uri(s3_uri) ==
    LET rest == After(Unquote(s3_uri), "s3://")
    IN [raised |-> "none",
        bucket |-> Before(rest, "/"),
        key    |-> IF Contains(rest, "/")
                   THEN StripSlashes(SubSeq(rest, IndexOf(rest, "/"), Len(rest)))
                   ELSE <<>>]

\* S3Object._parse_console_url
parse_console_url(console_url) ==
    LET url    == Unquote(console_url)
        netloc == Before(After(url, "https://"), "/")
    IN IF \/ netloc # <<ConsoleHost>>
          \/ ~Contains(url, "s3/object/")
          \/ ~Contains(url, "prefix=")
       THEN [raised |-> "ValueError", bucket |-> <<>>, key |-> <<>>]
       ELSE [raised |-> "none",
             bucket |-> Before(SplitSecond(url, "s3/object/"), "?"),
             key    |-> Before(SplitSecond(url, "prefix="), "&")]

\* f"{arg}" of an argument that may be None
ArgText(arg) == IF arg = None THEN <<"None">> ELSE arg[1]

\* S3Object.__init__: the branch taken, then the attributes
S3ObjectInit(bucket, key, console_url, s3_uri, boto) ==
    LET parsed ==
          IF boto # None
          THEN [raised |-> "none", bucket |-> boto[1].bucket_name, key |-> boto[1].key]
          ELSE IF s3_uri # None /\ Contains(s3_uri[1], "s3://")
          THEN parse_s3_uri(s3_uri[1])
          ELSE IF console_url # None
          THEN parse_console_url(console_url[1])
          ELSE IF bucket # None /\ key # None
          THEN [raised |-> "none", bucket |-> bucket[1], key |-> key[1]]
          ELSE [raised |-> "AttributeError", bucket |-> <<>>, key |-> <<>>]
    IN [raised      |-> parsed.raised,
        bucket_name |-> parsed.bucket,
        key         |-> parsed.key,
        console_url |-> IF console_url # None THEN console_url[1]
                        ELSE make_console_url(parsed.bucket, parsed.key),
        s3_uri      |-> <<"s3://">> \o ArgText(bucket) \o <<"/">> \o ArgText(key),
        url         |-> make_s3_url(parsed.bucket, parsed.key)]

\* the representations an S3Object is built from
Representations == {"bucket_key", "s3_uri", "console_url", "obj"}

BucketNames == {<<"b">>, <<"m", "y">>}

KeyChars == {"k", "/", "&", " "}

Keys == UNION { [1..n -> KeyChars] : n \in 1..MaxKeyLen }

InitObject ==
    /\ cls = "S3Object"
    /\ cfg \in [kind : Representations, bucket : BucketNames, key : Keys]
    /\ content = <<>>
    /\ gen = GenInit
    /\ headers = <<>>
    /\ i = 0
    /\ text = <<>>
    /\ lines = <<>>
    /\ bad_lines = <<>>
    /\ writes = <<>>
    /\ dest = None
    /\ num_good = -1
    /\ num_bad = -1
    /\ pc = "ready"
    /\ error = "none"
    /\ swallowed = 0
    /\ yielded = <<>>
    /\ percent_good = None
    /\ runs = 0
    /\ regex_errors = 0
    /\ caret = None
    /\ obj = None
    /\ wargs = None
    /\ default_regexes = DefaultRejectLineRegex
    /\ built = <<>>
    /\ opened = <<>>
    /\ broken = FALSE
    /\ ret = None

\* S3Object(...) with the one representation cfg.kind names
Construct ==
    /\ cls = "S3Object"
    /\ pc = "ready"
    /\ LET b == cfg.bucket
           k == cfg.key
           r == CASE cfg.kind = "bucket_key" ->
                       S3ObjectInit(Some(b), Some(k), None, None, None)
                  [] cfg.kind = "s3_uri" ->
                       S3ObjectInit(None, None, None,
                                    Some(<<"s3://">> \o b \o <<"/">> \o k), None)
                  [] cfg.kind = "console_url" ->
                       S3ObjectInit(None, None, Some(make_console_url(b, k)),
                                    None, None)
                  [] cfg.kind = "obj" ->
                       S3ObjectInit(None, None, None, None,
                                    Some([bucket_name |-> b, key |-> k]))
       IN /\ obj' = Some(r)
          /\ error' = r.raised
          /\ pc' = IF r.raised = "none" THEN "built" ELSE "raised"
    /\ UNCHANGED <<cls, cfg, content, gen, headers, i, text, lines, bad_lines,
                   writes, dest, num_good, num_bad, swallowed, yielded,
                   percent_good, runs, regex_errors, caret, wargs,
                   default_regexes, built, opened, broken, ret>>

\* S3Object(console_url=s3_obj.console_url)
Reconstruct ==
    /\ cls = "S3Object"
    /\ pc = "built"
    /\ LET r == S3ObjectInit(None, None, Some(obj[1].console_url), None, None)
       IN /\ obj' = Some(r)
          /\ error' = r.raised
          /\ pc' = IF r.raised = "none" THEN "rebuilt" ELSE "raised"
    /\ UNCHANGED <<cls, cfg, content, gen, headers, i, text, lines, bad_lines,
                   writes, dest, num_good, num_bad, swallowed, yielded,
                   percent_good, runs, regex_errors, caret, wargs,
                   default_regexes, built, opened, broken, ret>>

NextObject == Construct \/ Reconstruct

SpecObject == InitObject /\ [][NextObject]_vars

----------------------------------------------------------------------------
(* S3Cleaners constructed one after the other in one process.  The default
   of reject_line_regex is one list object, made when the def statement runs
   and bound to the parameter in every call that does not pass the argument. *)

\* S3Cleaner.__init__, lines 660-664: self._regexes is the list passed in,
\* _null_handler and _column_count_enforcer extend that list in place with
\* "+=", and self.regex is made of its distinct members.  n is
\* len(self.headers).
S3CleanerInit(null_handler, is_enforce_column_count, n, reject_line_regex) ==
    LET regexes == reject_line_regex
                   \o NullPatterns(null_handler, Delim)
                   \o ColumnCountPatterns(is_enforce_column_count, n)
    IN [regexes |-> regexes, regex |-> unique(regexes)]

\* the arguments of one construction: whether reject_line_regex is left to
\* its default or given as a new list, the two handlers, and the number of
\* columns in the header of the object
BuildArgs ==
    [default : BOOLEAN,
     null_handler : {"drop", "replace"},
     is_enforce_column_count : BOOLEAN,
     ncols : {3, 4}]

InitBuild ==
    /\ cls = "process"
    /\ cfg = <<>>
    /\ content = <<>>
    /\ gen = GenInit
    /\ headers = <<>>
    /\ i = 0
    /\ text = <<>>
    /\ lines = <<>>
    /\ bad_lines = <<>>
    /\ writes = <<>>
    /\ dest = None
    /\ num_good = -1
    /\ num_bad = -1
    /\ pc = "ready"
    /\ error = "none"
    /\ swallowed = 0
    /\ yielded = <<>>
    /\ percent_good = None
    /\ runs = 0
    /\ regex_errors = 0
    /\ caret = None
    /\ obj = None
    /\ wargs = None
    /\ default_regexes = DefaultRejectLineRegex
    /\ built = <<>>
    /\ opened = <<>>
    /\ broken = FALSE
    /\ ret = None

\* S3Cleaner(s3_obj, delim="~", ...) is called once more
BuildCleaner ==
    /\ cls = "process"
    /\ Len(built) < MaxBuilt
    /\ \E a \in BuildArgs :
          LET r == S3CleanerInit(a.null_handler, a.is_enforce_column_count,
                                 a.ncols,
                                 IF a.default THEN default_regexes
                                 ELSE <<PatNonAscii>>)
          IN /\ built' = Append(built, [args |-> a, regex |-> r.regex])
             /\ default_regexes' = IF a.default THEN r.regexes
                                   ELSE default_regexes
    /\ UNCHANGED <<cls, cfg, content, gen, headers, i, text, lines,
                   bad_lines, writes, dest, num_good, num_bad, pc, error,
                   swallowed, yielded, percent_good, runs, regex_errors,
                   caret, obj, wargs, opened, broken, ret>>

NextBuild == BuildCleaner

SpecBuild == InitBuild /\ [][NextBuild]_vars

----------------------------------------------------------------------------
(* S3Cleaner.rewrite on objects of a header and one data line of ordinary
   characters and delimiters, with a header of one column or more: what the
   two patterns of _column_count_enforcer reject *)

\* a header of n columns
GuardHeader(n) == [x \in 1..(2 * n - 1) |-> IF x % 2 = 1 THEN "a" ELSE Delim]

GuardLines == UNION { [1..n -> {"a", Delim}] : n \in 0..MaxGuardLen }

GuardContents ==
    { JoinLines(<<GuardHeader(n), l>>, final) :
        n \in 1..MaxCols, l \in GuardLines, final \in BOOLEAN }

\* cleaners whose regex holds the default pattern and, with enforcement on,
\* the two column-count patterns, nothing else
GuardConfigs ==
    { c \in S3Configs :
        /\ c.reject_line_regex = "default"
        /\ c.null_handler = "replace"
        /\ c.encoding = "ascii"
        /\ c.write_chunk_b = DefaultWriteChunk }

InitGuard == InitCleaner(GuardConfigs, GuardContents)

NextGuard ==
    \/ RewriteLine
    \/ RewriteSourceError
    \/ RewriteFinish

SpecGuard == InitGuard /\ [][NextGuard]_vars

----------------------------------------------------------------------------
(* BadFileReader.read() as a loop that runs on while it can.  The file may
   have been replaced after the constructor read it by one that fails with
   OSError on every attempt to read it; self._i is then followed up to
   MaxCount and no further. *)

InitReadFair ==
    /\ cls = "BadFileReader"
    /\ cfg \in BFRConfigs
    /\ content \in FileContents(MaxFileData)
    /\ gen = GenInit
    /\ headers = BFRHeaders(content)
    /\ i = 0
    /\ text = <<>>
    /\ lines = <<>>
    /\ bad_lines = <<>>
    /\ writes = <<>>
    /\ dest = None
    /\ num_good = -1
    /\ num_bad = -1
    /\ pc = "ready"
    /\ error = "none"
    /\ swallowed = 0
    /\ yielded = <<>>
    /\ percent_good = None
    /\ runs = 0
    /\ regex_errors = 0
    /\ caret = None
    /\ obj = None
    /\ wargs = None
    /\ default_regexes = DefaultRejectLineRegex
    /\ built = <<>>
    /\ opened = <<>>
    /\ broken \in BOOLEAN
    /\ ret = None

\* _yield_lines, lines 290-294 on a source that fails: self._i is counted
\* and next(file) raises OSError
ReadBrokenRaise ==
    /\ cls = "BadFileReader"
    /\ pc \in {"ready", "streaming"}
    /\ broken
    /\ i' = IF i < MaxCount THEN i + 1 ELSE i
    /\ pc' = "excepting"
    /\ UNCHANGED <<cls, cfg, content, gen, headers, text, lines, bad_lines,
                   writes, dest, num_good, num_bad, error, swallowed,
                   yielded, percent_good, runs, regex_errors, caret, obj,
                   wargs, default_regexes, built, opened, broken, ret>>

\* _yield_lines, lines 301-302: "except Exception" prints the error and the
\* loop takes its next turn
ReadBrokenPrint ==
    /\ cls = "BadFileReader"
    /\ pc = "excepting"
    /\ swallowed' = IF swallowed < MaxSourceErrors THEN swallowed + 1
                    ELSE swallowed
    /\ pc' = "streaming"
    /\ UNCHANGED <<cls, cfg, content, gen, headers, i, text, lines,
                   bad_lines, writes, dest, num_good, num_bad, error,
                   yielded, percent_good, runs, regex_errors, caret, obj,
                   wargs, default_regexes, built, opened, broken, ret>>

NextReadFair ==
    \/ ReadLine
    \/ ReadSourceError
    \/ ReadFinish
    \/ ReadBrokenRaise
    \/ ReadBrokenPrint

\* a turn of the loop on a source that has not failed for good: lines
\* 290-291 add 1 to self._i in every such turn (ReadLine, ReadSourceError
\* and ReadFinish all do)
ReadTurn ==
    /\ cls = "BadFileReader"
    /\ pc \in {"ready", "streaming"}
    /\ ~broken
    /\ i' = i + 1

\* read() runs in one thread that is not stopped from outside: as long as
\* the loop can take a turn it takes one
SpecReadFair ==
    /\ InitReadFair
    /\ [][NextReadFair]_vars
    /\ WF_i(ReadTurn)
    /\ WF_vars(ReadBrokenRaise)
    /\ WF_vars(ReadBrokenPrint)

----------------------------------------------------------------------------
(* write_text_to_obj and the upload_obj it calls *)

\* how s3_obj.upload_fileobj ends: it uploads, or raises one of the errors
\* upload_obj catches, or raises another error
UploadOutcomes == {"ok", "ClientError", "TypeError", "S3UploadFailedError"}

\* upload_obj, lines 150-161: ClientError and TypeError are caught and
\* returned, every other error leaves the function, None is returned after
\* an upload
upload_obj(outcome) ==
    CASE outcome = "ok" -> [raised |-> "none", returned |-> "none"]
      [] outcome \in {"ClientError", "TypeError"} ->
            [raised |-> "none", returned |-> outcome]
      [] OTHER -> [raised |-> outcome, returned |-> "none"]

\* the texts written
UploadTexts == {<<>>, <<"a">>, <<"a", LF>>}

\* the arguments of write_text_to_obj: whether s3_obj, bucket and key are
\* given, and the text
UploadArgs ==
    [s3_obj : BOOLEAN, bucket : BOOLEAN, key : BOOLEAN, text : UploadTexts]

InitUpload ==
    /\ cls = "write_text_to_obj"
    /\ cfg \in UploadArgs
    /\ content = <<>>
    /\ gen = GenInit
    /\ headers = <<>>
    /\ i = 0
    /\ text = <<>>
    /\ lines = <<>>
    /\ bad_lines = <<>>
    /\ writes = <<>>
    /\ dest \in {None, Some(OldDest)}
    /\ num_good = -1
    /\ num_bad = -1
    /\ pc = "ready"
    /\ error = "none"
    /\ swallowed = 0
    /\ yielded = <<>>
    /\ percent_good = None
    /\ runs = 0
    /\ regex_errors = 0
    /\ caret = None
    /\ obj = None
    /\ wargs = None
    /\ default_regexes = DefaultRejectLineRegex
    /\ built = <<>>
    /\ opened = <<>>
    /\ broken = FALSE
    /\ ret = None

\* lines 410-417: the arguments are checked
UploadCheckArgs ==
    /\ cls = "write_text_to_obj"
    /\ pc = "ready"
    /\ IF \/ ~cfg.s3_obj /\ ~(cfg.bucket /\ cfg.key)
          \/ cfg.s3_obj /\ (cfg.bucket \/ cfg.key)
       THEN /\ ret' = Some([error |-> "ValueError", s3_obj |-> FALSE])
            /\ pc' = "returned"
       ELSE /\ ret' = ret
            /\ pc' = "writing"
    /\ UNCHANGED <<cls, cfg, content, gen, headers, i, text, lines,
                   bad_lines, writes, dest, num_good, num_bad, error,
                   swallowed, yielded, percent_good, runs, regex_errors,
                   caret, obj, wargs, default_regexes, built, opened, broken>>

\* lines 420-425: the text is written to a file in /tmp
UploadWriteTemp ==
    /\ cls = "write_text_to_obj"
    /\ pc = "writing"
    /\ \E outcome \in {"ok", "OSError"} :
          IF outcome = "ok"
          THEN /\ ret' = ret
               /\ pc' = "uploading"
          ELSE /\ ret' = Some([error |-> outcome, s3_obj |-> TRUE])
               /\ pc' = "returned"
    /\ UNCHANGED <<cls, cfg, content, gen, headers, i, text, lines,
                   bad_lines, writes, dest, num_good, num_bad, error,
                   swallowed, yielded, percent_good, runs, regex_errors,
                   caret, obj, wargs, default_regexes, built, opened, broken>>

\* lines 428-433: upload_obj is called, what it returns is dropped (error
\* keeps it here), an error it raises is returned, and (None, s3_obj) is
\* returned otherwise
UploadCall ==
    /\ cls = "write_text_to_obj"
    /\ pc = "uploading"
    /\ \E outcome \in UploadOutcomes :
          LET u == upload_obj(outcome) IN
          /\ IF outcome = "ok"
             THEN /\ dest' = Some(cfg.text)
                  /\ writes' = Append(writes, cfg.text)
             ELSE UNCHANGED <<dest, writes>>
          /\ ret' = Some([error |-> u.raised, s3_obj |-> TRUE])
          /\ error' = u.returned
          /\ pc' = "returned"
    /\ UNCHANGED <<cls, cfg, content, gen, headers, i, text, lines,
                   bad_lines, num_good, num_bad, swallowed, yielded,
                   percent_good, runs, regex_errors, caret, obj, wargs,
                   default_regexes, built, opened, broken>>

NextUpload ==
    \/ UploadCheckArgs
    \/ UploadWriteTemp
    \/ UploadCall

SpecUpload == InitUpload /\ [][NextUpload]_vars

----------------------------------------------------------------------------
(* The BadLines of a finished run shown: BadFileReader.print_bad_lines, or
   caret_under_matches called on every member of S3Cleaner.bad_lines *)

\* caret_under_matches, line 137: len(self.line) raises TypeError when the
\* BadLine was built without a line
CaretRaises(bl) == bl.line = None

\* the loop over self.bad_lines: it ends at the first call that raises
ShowBadLines ==
    /\ cls \in {"S3Cleaner", "BadFileReader"}
    /\ pc = "done"
    /\ IF \E k \in 1..Len(bad_lines) : CaretRaises(bad_lines[k])
       THEN /\ pc' = "raised"
            /\ error' = "TypeError"
       ELSE /\ pc' = "shown"
            /\ error' = error
    /\ UNCHANGED <<cls, cfg, content, gen, headers, i, text, lines,
                   bad_lines, writes, dest, num_good, num_bad, swallowed,
                   yielded, percent_good, runs, regex_errors, caret, obj,
                   wargs, default_regexes, built, opened, broken, ret>>

InitShow == InitRewrite \/ InitFile

NextShow ==
    \/ RewriteLine
    \/ RewriteSourceError
    \/ RewriteFinish
    \/ ReadLine
    \/ ReadSourceError
    \/ ReadFinish
    \/ ShowBadLines

SpecShow == InitShow /\ [][NextShow]_vars

----------------------------------------------------------------------------
(* S3Cleaner.rewrite(bucket, key) into the bucket of the source or into
   another bucket *)

OtherBucket == "dst"

InitDest ==
    InitCleaner(S3ConfigsFor({SourceBucket, OtherBucket}, {"out"}),
                ContentsUpTo(MaxFileData))

SpecDest == InitDest /\ [][NextRewrite]_vars

----------------------------------------------------------------------------
(* What the claims speak of *)

IsS3 == cls = "S3Cleaner"
IsBFR == cls = "BadFileReader"

\* the lines of the source with their terminators, the header first
SourceLines == SplitLines(content, TRUE)

\* the bytes handed to the destination so far, write after write
Written == Flatten(writes)

\* the lines the run has emitted so far, without terminators
Emitted ==
    IF IsS3 THEN SplitLines(Written \o ReplaceNull(cfg, text), FALSE) ELSE lines

\* S3Cleaner accepts the line: it decodes and no pattern is found in it
S3Accepts(line) ==
    /\ Decode(line, cfg.encoding).ok
    /\ RegexCompiles(S3Regex(cfg, headers))
    /\ ~RegexSearch(S3Regex(cfg, headers), line, Delim)

\* a single write of every accepted line of the source
AcceptedOneShot ==
    ReplaceNull(cfg, Flatten(SelectSeq(SourceLines, S3Accepts)))

HasNonAscii(s) == \E j \in 1..Len(s) : s[j] \in NonAscii

\* NULL next to a delimiter
HasNullSentinel(s) ==
    HasSub(s, NULL \o <<Delim>>) \/ HasSub(s, <<Delim>> \o NULL)

\* C1: after S3Cleaner.rewrite has completed, the destination object holds
\* the concatenation of all accepted lines in source order, what one write
\* of them all would give, whatever write_chunk_b is.
C1_DestIsAllAccepted ==
    (IsS3 /\ pc = "done") =>
        IF AcceptedOneShot = <<>>
        THEN dest \in {None, Some(<<>>)}
        ELSE dest = Some(AcceptedOneShot)

\* C2: with null_handler "drop", column-count enforcement and ASCII
\* encoding, rewrite writes the header followed by the data lines that
\* decode as ASCII, hold no NULL next to a delimiter and have the header's
\* delimiter count, in source order, and num_bad counts the other data lines.
C2_CleanData(l) ==
    /\ ~HasNonAscii(l)
    /\ ~HasNullSentinel(l)
    /\ DelimCount(l, Delim) = DelimCount(SourceLines[1], Delim)

C2_DropModeOutput ==
    (/\ IsS3 /\ pc = "done"
     /\ cfg.null_handler = "drop" /\ cfg.is_enforce_column_count
     /\ cfg.encoding = "ascii") =>
        LET data == Tail(SourceLines)
            clean == SelectSeq(data, C2_CleanData)
        IN /\ dest = Some(Flatten(<<SourceLines[1]>> \o clean))
           /\ num_bad = Len(data) - Len(clean)

\* C3: a data line with one field less than the header that matches no other
\* rejection pattern is repaired: it is not rejected, and it is emitted with
\* one delimiter appended.
C3_OneShort(l) ==
    /\ ~HasNonAscii(content)
    /\ DelimCount(l, Delim) = Len(headers) - 2
    /\ ~HasNonAscii(l)
    /\ ~HasNullSentinel(l)

C3_OneShortIsRepaired ==
    (pc = "done" /\ (IsS3 \/ IsBFR)) =>
        \A x \in 2..Len(SourceLines) :
            LET l == Body(SourceLines[x]) IN
            C3_OneShort(l) =>
                /\ \E y \in 1..Len(Emitted) : Emitted[y] = Append(l, Delim)
                /\ \A y \in 1..Len(bad_lines) : bad_lines[y].line # Some(l)

\* C4: the repair is never applied to a line that matches the non-ASCII
\* pattern, so no emitted line holds a non-ASCII character.
C4_NoNonAsciiEmitted ==
    (IsS3 \/ IsBFR) => \A y \in 1..Len(Emitted) : ~HasNonAscii(Emitted[y])

\* C5: the header is never classified: once the run has taken the first line
\* of the source, the header is the one line emitted, unmodified, and
\* bad_lines is empty, whatever the rejection patterns are.
C5_LinesTaken == IF IsS3 THEN i - 1 ELSE gen.offset

C5_HeaderNotClassified ==
    (/\ IsS3 \/ IsBFR
     /\ pc = "streaming" /\ swallowed = 0
     /\ C5_LinesTaken = 1
     /\ IsBFR => Decode(content, cfg.encoding).ok) =>
        /\ bad_lines = <<>>
        /\ Emitted = <<Body(SourceLines[1])>>

\* C6: when every line of the source decodes and none matches a rejection
\* pattern, num_good after the run is the number of lines of the source
\* minus one, the header, and num_bad is 0.
C6_CleanSource ==
    IF IsS3
    THEN \A x \in 1..Len(SourceLines) : S3Accepts(SourceLines[x])
    ELSE /\ Decode(content, cfg.encoding).ok
         /\ RegexCompiles(BFRRegex(cfg, Len(headers)))
         /\ \A x \in 1..Len(FileLines(content)) :
                ~RegexSearch(BFRRegex(cfg, Len(headers)),
                             DecodeText(FileLines(content)[x], cfg.encoding),
                             Delim)

C6_CleanCounts ==
    (/\ IsS3 \/ IsBFR
     /\ pc = "done" /\ swallowed = 0
     /\ C6_CleanSource) =>
        /\ num_good = Len(SourceLines) - 1
        /\ num_bad = 0

\* C7: in replace mode no emitted line holds a NULL sentinel between two
\* delimiters, lines with adjacent sentinels included.
C7_ReplaceMode == IsBFR \/ (IsS3 /\ cfg.null_handler = "replace")

C7_NoSentinelEmitted ==
    C7_ReplaceMode =>
        \A y \in 1..Len(Emitted) : ~HasSub(Emitted[y], BFRReplace)

\* C8: a line that fails to decode or matches a rejection pattern never
\* makes read or rewrite raise: a run only ends early on an error of the
\* byte source.
C8_LineFailureNeverRaises ==
    (IsS3 \/ IsBFR) => (pc = "raised" => error = "SourceError")

\* C9: an error of the byte source is never swallowed: it ends the run,
\* reaches the caller, and the text buffered so far has been written to the
\* destination by then.
C9_SourceErrorAbortsAfterFlush ==
    (IsS3 \/ IsBFR) =>
        /\ swallowed = 0
        /\ (pc = "raised" /\ error = "SourceError") => text = <<>>

\* C10: whatever the bytes and the chunk size, the lines iter_lines_progress
\* has yielded are the first logical lines of the content, in order, and
\* when it is exhausted they are all of them.
C10_YieldsLogicalLines ==
    cls = "iter_lines_progress" =>
        LET logical == SplitLines(content, cfg.keepends) IN
        /\ Len(yielded) <= Len(logical)
        /\ \A x \in 1..Len(yielded) : yielded[x] = logical[x]
        /\ pc = "done" => yielded = logical

\* an exhausted run over several lines in which a chunk ended between "\r"
\* and "\n" and the last line has no terminator
C10_Witness ==
    /\ cls = "iter_lines_progress" /\ pc = "done"
    /\ Len(yielded) >= 2
    /\ content # <<>> /\ ~IsBreak(content[Len(content)])
    /\ \E k \in 1..(Len(content) - 1) :
          /\ k % cfg.chunk_size = 0
          /\ content[k] = CR /\ content[k + 1] = LF

\* every line of the bytes b ends with "\n" and holds no "\r"
NewlineTerminated(b) ==
    \A x \in 1..Len(SplitLines(b, TRUE)) :
        LET l == SplitLines(b, TRUE)[x] IN
        /\ l[Len(l)] = LF
        /\ \A j \in 1..Len(l) : l[j] # CR

\* C11: every line that BadFileReader.write or S3Cleaner.rewrite has written
\* to the destination ends with exactly one "\n", whatever ended it in the
\* source, the unterminated last line included.
C11_OneNewlinePerLine ==
    (/\ (IsS3 /\ pc = "done") \/ (IsBFR /\ pc = "written")
     /\ dest # None) =>
        NewlineTerminated(dest[1])

\* C12: a call of rewrite or read on an instance whose run has completed
\* starts from a reset state: the line counter is back at its value after
\* construction and bad_lines is empty (or the call is refused, which the
\* code never does).
C12_RerunStartsReset ==
    [][runs' = runs + 1 =>
          /\ i' = (IF IsS3 THEN 1 ELSE 0)
          /\ bad_lines' = <<>>]_vars

\* C13: on a source of zero lines BadFileReader.write never fails with a
\* division by zero when it computes percent_good.
C13_NoDivisionFault ==
    IsBFR => error # "ZeroDivisionError"

\* C14: a malformed rejection pattern is refused when the instance is
\* constructed: while lines are classified no re.error leaves rewrite and
\* none is caught and printed by read.
C14_NoRegexErrorPerLine ==
    (IsS3 \/ IsBFR) => (error # "re.error" /\ regex_errors = 0)

\* C15: a call of BadFileReader.write with dry_run=True that returns sets
\* percent_good to 100 * n_lines / num_total, n_lines being the length of
\* the lines given or else num_good, as a write without dry_run does, and
\* leaves the destination as it was: not created, not modified, no byte
\* written.
C15_DryRunWritesNothing ==
    [][(/\ wargs = None /\ wargs' # None
        /\ wargs'[1].dry_run = Some(TRUE)
        /\ pc' # "raised") =>
          /\ dest' = dest
          /\ writes' = writes
          /\ LET given == wargs'[1].lines \notin {None, Some(<<>>)}
                 n_lines == IF given THEN Len(wargs'[1].lines[1]) ELSE num_good
             IN percent_good' = Some(<<100 * n_lines, num_total>>)]_vars

\* a dry run has returned, on a reader that kept lines, with and without a
\* file already at dest
C15_Witness ==
    /\ IsBFR /\ pc = "skipped"
    /\ wargs # None /\ wargs[1].dry_run = Some(TRUE)
    /\ lines # <<>> /\ bad_lines # <<>>
    /\ dest = Some(OldDest)
    /\ percent_good # None

\* the source is ASCII only, every line has the header's delimiter count and
\* none holds a NULL sentinel
C16_Clean ==
    /\ content # <<>>
    /\ ~HasNonAscii(content)
    /\ \A x \in 1..Len(SourceLines) :
          /\ DelimCount(SourceLines[x], Delim) = DelimCount(SourceLines[1], Delim)
          /\ ~HasNullSentinel(SourceLines[x])

\* every line of the source, in order, each followed by one "\n"
C16_Expected ==
    Flatten([x \in 1..Len(SourceLines) |-> Append(Body(SourceLines[x]), LF)])

\* C16: run on a clean source with well-formed patterns and no source error,
\* the pipeline (rewrite, or read followed by write of the lines read) leaves
\* in the destination the header and every data line, unchanged and in
\* order, each ended by one newline.
C16_RoundTrip ==
    (/\ C16_Clean
     /\ swallowed = 0
     /\ \/ /\ IsS3 /\ pc = "done"
           /\ cfg.reject_line_regex = "default"
        \/ /\ IsBFR /\ pc = "written"
           /\ cfg.reject # "malformed"
           /\ wargs[1].lines = None) =>
        dest = Some(C16_Expected)

\* C17: the pipeline run again with the same configuration on the output
\* of a completed run rejects no line: the second run completes and its
\* num_bad is 0.
C17_SecondRunRejectsNothing ==
    /\ (/\ IsS3 /\ pc = "done"
        /\ dest # None /\ dest[1] # <<>>) =>
           /\ S3Run(cfg, dest[1]).raised = "none"
           /\ S3Run(cfg, dest[1]).bad_lines = <<>>
    /\ (/\ IsBFR /\ pc = "written"
        /\ wargs[1].lines = None
        /\ dest[1] # <<>>) =>
           /\ BFRRun(cfg, dest[1]).raised = "none"
           /\ BFRRun(cfg, dest[1]).bad_lines = <<>>

\* a read that has returned, with well-formed patterns and no source error,
\* on a file of a header and the one data line a~a~a~, whose last field is
\* empty (the delimiter "~" and the field "a" standing for the tab and the
\* values of the example)
C18_Scenario ==
    /\ IsBFR /\ pc = "done"
    /\ swallowed = 0
    /\ cfg.reject # "malformed"
    /\ Len(SourceLines) = 2
    /\ Body(SourceLines[2]) = TrailingEmptyLine

\* C18, as stated: the line with the empty last field is repaired and emitted
\* with one delimiter appended.
C18_TrailingEmptyRepaired ==
    C18_Scenario =>
        /\ Len(lines) = 2
        /\ lines[2] = Append(TrailingEmptyLine, Delim)

\* C18, as the code has it: the line has as many fields as the header, it
\* matches no rejection pattern, is not repaired and is emitted unchanged
\* after the header; nothing is rejected.
C18_TrailingEmptyUnchanged ==
    C18_Scenario =>
        /\ lines = <<Body(SourceLines[1]), TrailingEmptyLine>>
        /\ bad_lines = <<>>

\* the example itself: read with the default patterns and latin-1
C18_Witness ==
    /\ C18_Scenario
    /\ cfg.reject = "default" /\ cfg.encoding = "latin-1"
    /\ Len(lines) = 2 /\ lines[2] = TrailingEmptyLine
    /\ num_good = 2 /\ num_bad = 0

\* C19: caret_under_matches returns the preface and the text, then a line
\* as wide as the first with "^" at the columns of every matched span
\* shifted by the length of the preface and spaces elsewhere, then the name
\* of the pattern.
C19_CaretsUnderMatches ==
    (cls = "BadLine" /\ pc = "done") =>
        LET r     == caret[1]
            p     == Len(Preface(cfg.line_no))
            spans == SpansFrom(cfg.line, 1)
        IN /\ r[1] = Preface(cfg.line_no) \o cfg.line
           /\ Len(r[2]) = Len(r[1])
           /\ \A col \in 1..Len(r[2]) :
                 r[2][col] =
                    IF \E x \in 1..Len(spans) :
                          spans[x][1] + p < col /\ col <= spans[x][2] + p
                    THEN "^" ELSE " "
           /\ r[3] = <<" (re pattern '", NonAsciiPattern, "')">>

\* C20: an S3Object built from any representation of a bucket and a key
\* exposes that bucket_name and that key, its s3_uri is "s3://" bucket_name
\* "/" key, and an S3Object built from its console_url has the same key.
C20_RepresentationsAgree ==
    (cls = "S3Object" /\ pc # "ready") =>
        /\ pc \in {"built", "rebuilt"}
        /\ obj[1].key = cfg.key
        /\ pc = "built" =>
              /\ obj[1].bucket_name = cfg.bucket
              /\ obj[1].s3_uri = <<"s3://">> \o obj[1].bucket_name
                                    \o <<"/">> \o obj[1].key

\* the patterns a cleaner has by its own arguments and header alone
C21_OwnPatterns(a) ==
    unique(DefaultRejectLineRegex
           \o NullPatterns(a.null_handler, Delim)
           \o ColumnCountPatterns(a.is_enforce_column_count, a.ncols))

IsNullPattern(p) == p.kind = "lit"

IsColumnCountPattern(p) == p.kind \in {"atleast", "atmost"}

\* C21: the rejection patterns of an S3Cleaner built with the default
\* reject_line_regex are those its own arguments and header give, whatever
\* cleaners were built before it; built with null_handler "replace" it has
\* no NULL pattern, built without column-count enforcement no column-count
\* pattern.
C21_PatternsAreOwn ==
    \A k \in 1..Len(built) :
        LET a == built[k].args
            regex == built[k].regex
        IN a.default =>
              /\ regex = C21_OwnPatterns(a)
              /\ a.null_handler = "replace" =>
                    \A x \in 1..Len(regex) : ~IsNullPattern(regex[x])
              /\ ~a.is_enforce_column_count =>
                    \A x \in 1..Len(regex) : ~IsColumnCountPattern(regex[x])

\* the reader rejects the n-th line of the source
C22_Rejected(n) ==
    IF IsS3 THEN ~S3Accepts(SourceLines[n])
    ELSE BFRParseLine(cfg, headers,
                      DecodeText(FileLines(content)[n], cfg.encoding),
                      n).bad # None

\* the positions of the rejected lines among the lines n..taken
RECURSIVE C22_Positions(_, _)
C22_Positions(n, taken) ==
    IF n > taken THEN <<>>
    ELSE (IF C22_Rejected(n) THEN <<Some(n)>> ELSE <<>>)
         \o C22_Positions(n + 1, taken)

\* C22: every BadLine recorded carries a line_no, and the line numbers
\* recorded are the 1-based positions in the source of the lines rejected
\* so far, the header being line 1.
C22_LineNoIsPosition ==
    ((IsS3 \/ IsBFR) /\ pc \in {"streaming", "done"}) =>
        /\ \A k \in 1..Len(bad_lines) : bad_lines[k].line_no # None
        /\ (IsBFR => Decode(content, cfg.encoding).ok) =>
              [k \in 1..Len(bad_lines) |-> bad_lines[k].line_no]
                 = C22_Positions(1, C5_LinesTaken)

\* the lines rewrite has taken from the source so far
C23_Taken == SubSeq(SourceLines, 1, i - 1)

\* the texts of the lines rejected so far
C23_RejectedTexts == [k \in 1..Len(bad_lines) |-> bad_lines[k].line[1]]

\* more than N delimiters, or fewer than N-1
C23_MoreOrFewer(l) ==
    \/ DelimCount(l, Delim) > Len(headers)
    \/ DelimCount(l, Delim) < Len(headers) - 1

\* any number of delimiters but N-1
C23_NotOneLess(l) == DelimCount(l, Delim) # Len(headers) - 1

\* C23 as stated: with enforcement on and N header columns, the lines the
\* column-count guard has rejected are those with more than N delimiters or
\* fewer than N-1; a line with N-1 or N delimiters is not rejected.
C23_GuardRejectsMoreOrFewer ==
    (IsS3 /\ cfg.is_enforce_column_count /\ pc \in {"streaming", "done"}) =>
        C23_RejectedTexts = SelectSeq(C23_Taken, C23_MoreOrFewer)

\* C23 amended: with enforcement on and N header columns, the lines the
\* column-count guard has rejected are those whose delimiter count is N or
\* more, or N-2 or fewer: only a line with exactly N-1 delimiters is not
\* rejected.  With enforcement off the guard rejects nothing.
C23_GuardRejectsAllButOneLess ==
    (IsS3 /\ pc \in {"streaming", "done"}) =>
        C23_RejectedTexts =
            IF cfg.is_enforce_column_count
            THEN SelectSeq(C23_Taken, C23_NotOneLess)
            ELSE <<>>

\* a line with as many delimiters as the header has columns was rejected
C23_Witness ==
    /\ IsS3 /\ cfg.is_enforce_column_count /\ pc = "done"
    /\ \E k \in 1..Len(bad_lines) :
          DelimCount(bad_lines[k].line[1], Delim) = Len(headers)

\* C24: when S3Cleaner.rewrite has finished normally the buffer _text is
\* empty and the write calls made, one after the other, carry every accepted
\* line once and in order: what was left after the last threshold flush has
\* been written, once.
C24_RemainderFlushedOnce ==
    (IsS3 /\ pc = "done") =>
        /\ text = <<>>
        /\ Written = AcceptedOneShot

\* a rewrite that flushed on the threshold and then wrote a remainder
C24_Witness ==
    /\ IsS3 /\ pc = "done"
    /\ cfg.write_chunk_b = 2
    /\ i % 2 = 1
    /\ Len(writes) = 2
    /\ writes[2] # <<>>

\* the BadLine of a line that did not decode
C25_OfDecodeError(b) == b.line = None

\* C25: building the BadLine of a line that fails to decode never raises,
\* whatever form the message of the decode error has, and the position of
\* the record is the byte offset the message carries.
C25_PositionBestEffort ==
    (IsS3 \/ IsBFR) =>
        /\ error # "ValueError"
        /\ \A k \in 1..Len(bad_lines) :
              C25_OfDecodeError(bad_lines[k]) => bad_lines[k].position # None

\* C26: after BadFileReader.read() every line of the source, empty lines
\* included, is in lines or in bad_lines: num_good + num_bad = num_total.
C26_EveryLineAccounted ==
    (IsBFR /\ pc = "done") =>
        /\ num_good + num_bad = num_total
        /\ Len(lines) + Len(bad_lines) = num_total

\* C27: BadFileReader.read() terminates on every finite source: the loop of
\* _yield_lines is left in the end, also when reading the next line raises
\* an error other than UnicodeDecodeError or StopIteration on every attempt.
C27_ReadTerminates == <>(pc \in {"done", "raised"})

\* C28: write_text_to_obj returns (None, s3_obj) only if the text was
\* uploaded; whenever the upload did not succeed the first element of its
\* result is an error.
C28_NoneOnlyAfterUpload ==
    (cls = "write_text_to_obj" /\ pc = "returned" /\ ret[1].error = "none") =>
        writes = <<cfg.text>>

\* C29: caret_under_matches and print_bad_lines complete without raising on
\* every BadLine that read or rewrite has placed in bad_lines, those of
\* decode errors included.
C29_ShowingNeverRaises ==
    ((IsS3 \/ IsBFR) /\ pc = "raised") => error # "TypeError"

\* C30: every object S3Cleaner.rewrite(bucket, key) opens for writing is
\* the one named by the bucket and the key it was passed; it never writes
\* into the bucket of the source when another bucket is given.
C30_WritesOnlyToTarget ==
    IsS3 => \A k \in 1..Len(opened) : opened[k] = <<cfg.bucket, cfg.key>>

=============================================================================
